---- MODULE Spec2Model ----
(***************************************************************************)
(* State-machine model of the Tetris engine embedded in the TetrisGame     *)
(* React component (src/unnamed/part_001, lines 1-1778; the same engine    *)
(* with a one-entry queue is src/components/TetrisGame.tsx).               *)
(*                                                                         *)
(* Coordinates are those of the source: columns x and rows y are 0-based,  *)
(* the grid is a sequence of rows (row y is grid[y + 1]) and a shape is a  *)
(* sequence of rows of 0/1 (shape[y][x] is shape[y + 1][x + 1]).           *)
(* Every handler is split, as in the source, into the part that reads the  *)
(* rendered snapshot `snap` (the closure's gameState) and the updater that *)
(* is applied to the current state `prev` (setGameState(prev => ...)).     *)
(***************************************************************************)
EXTENDS Integers, Sequences, FiniteSets

VARIABLES
    gameState,        \* useState<GameState>: the engine's state record
    isMobile,         \* useState isMobile (window.innerWidth <= 768)
    keyIsMobile,      \* the isMobile captured by the registered keydown listener
    isProcessingRef,  \* useRef: the hard-drop debounce flag
    locks,            \* pieces locked since the initial state or the last reset
    lastOp            \* history: the last operation and, for a step of play,
                      \* the state it started from

vars == <<gameState, isMobile, keyIsMobile, isProcessingRef, locks, lastOp>>

----------------------------------------------------------------------------
(* Program constants *)

COLS == 10

RowsElectronika == 24

RowsMobileOrTechnicolor == 20

(* Bounds of the model *)

\* random draws made by the actions come from the first NumKinds kinds of Types
NumKinds == 1

\* a game is followed for MaxLocks locked pieces past its initial state
MaxLocks == 1

\* the pause toggle is explored while the active piece's row is below PauseRows
PauseRows == 2

----------------------------------------------------------------------------
(* Shape catalog *)

Null == "null"

Types == <<"I", "J", "L", "O", "S", "T", "Z">>

AllKinds == {Types[i] : i \in 1..Len(Types)}

\* the kinds getRandomPiece returns in the model
DrawKinds == {Types[i] : i \in 1..NumKinds}

Themes == {"electronika", "technicolor"}

PIECES ==
    [k \in AllKinds |->
        CASE k = "I" -> << <<0, 0, 0, 0>>,
                           <<1, 1, 1, 1>>,
                           <<0, 0, 0, 0>>,
                           <<0, 0, 0, 0>> >>
          [] k = "J" -> << <<1, 0, 0>>,
                           <<1, 1, 1>>,
                           <<0, 0, 0>> >>
          [] k = "L" -> << <<0, 0, 1>>,
                           <<1, 1, 1>>,
                           <<0, 0, 0>> >>
          [] k = "O" -> << <<1, 1>>,
                           <<1, 1>> >>
          [] k = "S" -> << <<0, 1, 1>>,
                           <<1, 1, 0>>,
                           <<0, 0, 0>> >>
          [] k = "T" -> << <<0, 1, 0>>,
                           <<1, 1, 1>>,
                           <<0, 0, 0>> >>
          [] OTHER   -> << <<1, 1, 0>>,
                           <<0, 1, 1>>,
                           <<0, 0, 0>> >>]

\* activePiece: null
NoPiece == [type |-> Null, position |-> [x |-> 0, y |-> 0], shape |-> << >>]

HasPiece(s) == s.activePiece.type # Null

----------------------------------------------------------------------------
(* Grid construction *)

getRows(theme, mobile) ==
    IF theme = "electronika" /\ ~mobile THEN RowsElectronika
                                        ELSE RowsMobileOrTechnicolor

EmptyRow == [x \in 1..COLS |-> Null]

\* Array.from({ length: rows }, () => Array(COLS).fill(null))
EmptyGrid24 == [y \in 1..RowsElectronika |-> EmptyRow]

EmptyGrid20 == [y \in 1..RowsMobileOrTechnicolor |-> EmptyRow]

createEmptyGrid(theme, mobile) ==
    IF getRows(theme, mobile) = RowsElectronika THEN EmptyGrid24 ELSE EmptyGrid20

ZeroStats == [k \in AllKinds |-> 0]

\* getInitialState / restartGame / setTheme: the fresh state for given draws
FreshState(theme, mobile, d1, d2, d3) ==
    [grid        |-> createEmptyGrid(theme, mobile),
     activePiece |-> NoPiece,
     nextPieces  |-> <<d1, d2, d3>>,
     score       |-> 0,
     level       |-> 1,
     lines       |-> 0,
     isPaused    |-> FALSE,
     isGameOver  |-> FALSE,
     theme       |-> theme,
     pieceStats  |-> ZeroStats]

----------------------------------------------------------------------------
(* Collision detector *)

\* grid[y][x] as JavaScript reads it: a column outside the row is undefined
GridAt(grid, y, x) ==
    IF y + 1 \in DOMAIN grid /\ x + 1 \in DOMAIN grid[y + 1]
        THEN grid[y + 1][x + 1]
        ELSE "undefined"

\* variant: the right wall tested with > instead of >=
CellCollidesWide(grid, newX, newY) ==
    \/ newX < 0
    \/ newX > COLS
    \/ newY >= Len(grid)
    \/ (newY >= 0 /\ GridAt(grid, newY, newX) # Null)

\* the test made for one occupied cell, with its short-circuit order
CellCollides(grid, newX, newY) ==
    \/ newX < 0
    \/ newX >= COLS
    \/ newY >= Len(grid)
    \/ (newY >= 0 /\ GridAt(grid, newY, newX) # Null)

checkCollision(piece, grid, moveX, moveY) ==
    \E y \in 0..(Len(piece.shape) - 1) :
        \E x \in 0..(Len(piece.shape[y + 1]) - 1) :
            /\ piece.shape[y + 1][x + 1] # 0
            /\ CellCollides(grid, piece.position.x + x + moveX,
                                  piece.position.y + y + moveY)

\* the grid cells <<row, column>> a call may read: the cells whose test gets
\* past the three bounds tests and the row >= 0 test (the loop's early return
\* can only leave some of them unread)
CollisionReads(piece, grid, moveX, moveY) ==
    {<<piece.position.y + y + moveY, piece.position.x + x + moveX>> :
        <<y, x>> \in
            {c \in (0..(Len(piece.shape) - 1)) \X (0..(Len(piece.shape) - 1)) :
                /\ c[2] + 1 \in DOMAIN piece.shape[c[1] + 1]
                /\ piece.shape[c[1] + 1][c[2] + 1] # 0
                /\ ~(piece.position.x + c[2] + moveX < 0)
                /\ ~(piece.position.x + c[2] + moveX >= COLS)
                /\ ~(piece.position.y + c[1] + moveY >= Len(grid))
                /\ piece.position.y + c[1] + moveY >= 0}}

----------------------------------------------------------------------------
(* Rotation *)

\* variant: the transposition without the reverse()
rotateShapeTransposed(shape) ==
    [i \in 1..Len(shape[1]) |-> [j \in 1..Len(shape) |-> shape[j][i]]]

\* shape[0].map((_, index) => shape.map(col => col[index]).reverse())
rotateShape(shape) ==
    [i \in 1..Len(shape[1]) |->
        [j \in 1..Len(shape) |-> shape[Len(shape) + 1 - j][i]]]

\* shape[0].map((_, index) => shape.map(col => col[col.length - 1 - index]))
rotateShapeCCW(shape) ==
    [i \in 1..Len(shape[1]) |->
        [j \in 1..Len(shape) |-> shape[j][Len(shape[j]) + 1 - i]]]

----------------------------------------------------------------------------
(* Lock and line clear *)

\* the forEach that writes the piece's type into the copy of the grid,
\* dropping cells outside the grid
StampPiece(grid, piece) ==
    [gy \in 1..Len(grid) |->
        LET y == (gy - 1) - piece.position.y
        IN  IF y >= 0 /\ y < Len(piece.shape)
                THEN [gx \in 1..COLS |->
                        LET x == (gx - 1) - piece.position.x
                        IN  IF /\ x >= 0
                               /\ x < Len(piece.shape[y + 1])
                               /\ piece.shape[y + 1][x + 1] # 0
                                THEN piece.type
                                ELSE grid[gy][gx]]
                ELSE grid[gy]]

isFull(row) == \A x \in 1..Len(row) : row[x] # Null

\* a variant that removes the first full row only
FilterRowsOnce(grid) ==
    LET full == {y \in 1..Len(grid) : isFull(grid[y])}
    IN  IF full = {} THEN grid
        ELSE LET first == CHOOSE y \in full : \A z \in full : y <= z
             IN  SubSeq(grid, 1, first - 1) \o SubSeq(grid, first + 1, Len(grid))

\* newGrid.filter(row => !isFull)
FilterRows(grid) == SelectSeq(grid, LAMBDA row : ~isFull(row))

\* if (isFull) linesCleared++
CountFull(grid) == Cardinality({y \in 1..Len(grid) : isFull(grid[y])})

\* variant: push() instead of unshift(): the empty rows go to the bottom
RECURSIVE PushRows(_, _)
PushRows(filteredGrid, rows) ==
    IF Len(filteredGrid) < rows
        THEN PushRows(filteredGrid \o <<EmptyRow>>, rows)
        ELSE filteredGrid

\* while (filteredGrid.length < rows) filteredGrid.unshift(empty row)
RECURSIVE UnshiftRows(_, _)
UnshiftRows(filteredGrid, rows) ==
    IF Len(filteredGrid) < rows
        THEN UnshiftRows(<<EmptyRow>> \o filteredGrid, rows)
        ELSE filteredGrid

basePoints == <<0, 40, 100, 300, 1200>>

\* variant: the multiplier is the level, not the level + 1
LockPointsByLevel(linesCleared, prevLevel) == basePoints[linesCleared + 1] * prevLevel

\* basePoints[linesCleared] * (prev.level + 1)
LockPoints(linesCleared, prevLevel) == basePoints[linesCleared + 1] * (prevLevel + 1)

\* variant: the level rises one line late
LevelOfLate(newLines) == ((newLines - 1) \div 10) + 1

\* Math.floor(newLines / 10) + 1
LevelOf(newLines) == (newLines \div 10) + 1

\* a variant that centres the box: x: Math.floor((COLS - width) / 2)
NewPieceCentred(type) ==
    [type     |-> type,
     shape    |-> PIECES[type],
     position |-> [x |-> (COLS - Len(PIECES[type][1])) \div 2, y |-> 0]]

\* x: Math.floor(COLS / 2) - Math.floor(shape[0].length / 2), y: 0
NewPieceOf(type) ==
    [type     |-> type,
     shape    |-> PIECES[type],
     position |-> [x |-> (COLS \div 2) - (Len(PIECES[type][1]) \div 2), y |-> 0]]

\* [...prev.nextPieces.slice(1), getRandomPiece()]
ShiftQueue(nextPieces, draw) == Tail(nextPieces) \o <<draw>>

\* a variant that stamps the piece that could not be spawned
lockPieceStampsNext(prev, draw) ==
    IF ~HasPiece(prev) THEN prev
    ELSE
        LET rows          == Len(prev.grid)
            type          == prev.activePiece.type
            newPieceStats == [prev.pieceStats EXCEPT ![type] = @ + 1]
            newGrid       == StampPiece(prev.grid, prev.activePiece)
            linesCleared  == CountFull(newGrid)
            filteredGrid  == UnshiftRows(FilterRows(newGrid), rows)
            newLines      == prev.lines + linesCleared
            newLevel      == LevelOf(newLines)
            newScore      == prev.score + LockPoints(linesCleared, prev.level)
            nextActivePiece == NewPieceOf(prev.nextPieces[1])
            newNextPieces == ShiftQueue(prev.nextPieces, draw)
        IN  IF checkCollision(nextActivePiece, filteredGrid, 0, 0)
                THEN [prev EXCEPT !.grid = StampPiece(filteredGrid, nextActivePiece),
                                  !.activePiece = NoPiece,
                                  !.isGameOver = TRUE,
                                  !.score = newScore,
                                  !.lines = newLines,
                                  !.level = newLevel,
                                  !.nextPieces = newNextPieces]
                ELSE [prev EXCEPT !.grid = filteredGrid,
                                  !.activePiece = nextActivePiece,
                                  !.nextPieces = newNextPieces,
                                  !.score = newScore,
                                  !.lines = newLines,
                                  !.level = newLevel,
                                  !.pieceStats = newPieceStats]

\* the updater of lockPiece, applied to prev with the random draw `draw`
lockPiece(prev, draw) ==
    IF ~HasPiece(prev) THEN prev
    ELSE
        LET rows          == Len(prev.grid)
            type          == prev.activePiece.type
            newPieceStats == [prev.pieceStats EXCEPT ![type] = @ + 1]
            newGrid       == StampPiece(prev.grid, prev.activePiece)
            linesCleared  == CountFull(newGrid)
            filteredGrid  == UnshiftRows(FilterRows(newGrid), rows)
            newLines      == prev.lines + linesCleared
            newLevel      == LevelOf(newLines)
            newScore      == prev.score + LockPoints(linesCleared, prev.level)
            nextActivePiece == NewPieceOf(prev.nextPieces[1])
            newNextPieces == ShiftQueue(prev.nextPieces, draw)
        IN  IF checkCollision(nextActivePiece, filteredGrid, 0, 0)
                THEN [prev EXCEPT !.grid = filteredGrid,
                                  !.activePiece = NoPiece,
                                  !.isGameOver = TRUE,
                                  !.score = newScore,
                                  !.lines = newLines,
                                  !.level = newLevel,
                                  !.nextPieces = newNextPieces]
                ELSE [prev EXCEPT !.grid = filteredGrid,
                                  !.activePiece = nextActivePiece,
                                  !.nextPieces = newNextPieces,
                                  !.score = newScore,
                                  !.lines = newLines,
                                  !.level = newLevel,
                                  !.pieceStats = newPieceStats]

----------------------------------------------------------------------------
(* Spawn, drop, hard drop *)

\* spawnPiece: the piece is built from the snapshot's queue head, the updater
\* tests it against prev.grid
spawnPiece(snap, prev, draw) ==
    LET newPiece == NewPieceOf(snap.nextPieces[1])
    IN  IF checkCollision(newPiece, prev.grid, 0, 0)
            THEN [prev EXCEPT !.isGameOver = TRUE]
            ELSE [prev EXCEPT !.activePiece = newPiece,
                              !.nextPieces = ShiftQueue(prev.nextPieces, draw)]

\* a variant that pays one point for every row of descent
StepDownScoring(prev) ==
    IF HasPiece(prev)
        THEN [prev EXCEPT !.activePiece.position.y = @ + 1, !.score = @ + 1]
        ELSE prev

\* the updater of drop's first branch: prev.activePiece one row down
StepDown(prev) ==
    IF HasPiece(prev)
        THEN [prev EXCEPT !.activePiece.position.y = @ + 1]
        ELSE prev

\* variant: the collision test made at the piece's own row
dropNoOffset(snap, prev, processing, draw) ==
    IF ~HasPiece(snap) \/ snap.isPaused \/ snap.isGameOver \/ processing
        THEN prev
    ELSE IF ~checkCollision(snap.activePiece, snap.grid, 0, 0)
        THEN StepDown(prev)
        ELSE lockPiece(prev, draw)

\* a variant that leaves a resting piece where it is
dropNeverLocks(snap, prev, processing, draw) ==
    IF ~HasPiece(snap) \/ snap.isPaused \/ snap.isGameOver \/ processing
        THEN prev
    ELSE IF ~checkCollision(snap.activePiece, snap.grid, 0, 1)
        THEN StepDown(prev)
        ELSE prev

\* a variant whose guard leaves out gameState.isPaused
dropWhilePaused(snap, prev, processing, draw) ==
    IF ~HasPiece(snap) \/ snap.isGameOver \/ processing
        THEN prev
    ELSE IF ~checkCollision(snap.activePiece, snap.grid, 0, 1)
        THEN StepDown(prev)
        ELSE lockPiece(prev, draw)

\* drop: guard and collision test on the snapshot, updater on prev
drop(snap, prev, processing, draw) ==
    IF ~HasPiece(snap) \/ snap.isPaused \/ snap.isGameOver \/ processing
        THEN prev
    ELSE IF ~checkCollision(snap.activePiece, snap.grid, 0, 1)
        THEN StepDown(prev)
        ELSE lockPiece(prev, draw)

\* variant: the loop probes one row too far ahead
RECURSIVE DropDistanceEarly(_, _, _)
DropDistanceEarly(piece, grid, d) ==
    IF ~checkCollision(piece, grid, 0, d + 2)
        THEN DropDistanceEarly(piece, grid, d + 1)
        ELSE d

\* while (!checkCollision(piece, grid, 0, finalY - y + 1)) finalY++ :
\* the number of iterations of the loop, started with d = 0
RECURSIVE DropDistance(_, _, _)
DropDistance(piece, grid, d) ==
    IF ~checkCollision(piece, grid, 0, d + 1)
        THEN DropDistance(piece, grid, d + 1)
        ELSE d

\* a variant of hardDrop that leaves the debounce flag as it finds it
RefLeftSet(ref) == ref

\* hardDrop's last statement: isProcessingRef.current = false
RefAfterHardDrop(ref) == FALSE

\* a variant that ends the game as soon as the top row holds a cell
hardDropTopOut(prev, draw) ==
    IF ~HasPiece(prev) \/ prev.isPaused \/ prev.isGameOver THEN prev
    ELSE
        LET finalY        == prev.activePiece.position.y
                                + DropDistance(prev.activePiece, prev.grid, 0)
            finalPiece    == [prev.activePiece EXCEPT !.position.y = finalY]
            newPieceStats == [prev.pieceStats EXCEPT ![finalPiece.type] = @ + 1]
            rows          == Len(prev.grid)
            newGrid       == StampPiece(prev.grid, finalPiece)
            linesCleared  == CountFull(newGrid)
            filteredGrid  == UnshiftRows(FilterRows(newGrid), rows)
            newLines      == prev.lines + linesCleared
            newLevel      == LevelOf(newLines)
            newScore      == prev.score + LockPoints(linesCleared, prev.level)
            nextActivePiece == NewPieceOf(prev.nextPieces[1])
            newNextPieces == ShiftQueue(prev.nextPieces, draw)
            isGameOver    == \/ checkCollision(nextActivePiece, filteredGrid, 0, 0)
                             \/ filteredGrid[1] # EmptyRow
        IN  [prev EXCEPT !.grid = filteredGrid,
                         !.activePiece = IF isGameOver THEN NoPiece
                                                       ELSE nextActivePiece,
                         !.nextPieces = IF isGameOver THEN prev.nextPieces
                                                      ELSE newNextPieces,
                         !.score = newScore,
                         !.lines = newLines,
                         !.level = newLevel,
                         !.isGameOver = isGameOver \/ prev.isGameOver,
                         !.pieceStats = newPieceStats]

\* the updater of hardDrop
hardDrop(prev, draw) ==
    IF ~HasPiece(prev) \/ prev.isPaused \/ prev.isGameOver THEN prev
    ELSE
        LET finalY        == prev.activePiece.position.y
                                + DropDistance(prev.activePiece, prev.grid, 0)
            finalPiece    == [prev.activePiece EXCEPT !.position.y = finalY]
            newPieceStats == [prev.pieceStats EXCEPT ![finalPiece.type] = @ + 1]
            rows          == Len(prev.grid)
            newGrid       == StampPiece(prev.grid, finalPiece)
            linesCleared  == CountFull(newGrid)
            filteredGrid  == UnshiftRows(FilterRows(newGrid), rows)
            newLines      == prev.lines + linesCleared
            newLevel      == LevelOf(newLines)
            newScore      == prev.score + LockPoints(linesCleared, prev.level)
            nextActivePiece == NewPieceOf(prev.nextPieces[1])
            newNextPieces == ShiftQueue(prev.nextPieces, draw)
            isGameOver    == checkCollision(nextActivePiece, filteredGrid, 0, 0)
        IN  [prev EXCEPT !.grid = filteredGrid,
                         !.activePiece = IF isGameOver THEN NoPiece
                                                       ELSE nextActivePiece,
                         !.nextPieces = IF isGameOver THEN prev.nextPieces
                                                      ELSE newNextPieces,
                         !.score = newScore,
                         !.lines = newLines,
                         !.level = newLevel,
                         !.isGameOver = isGameOver \/ prev.isGameOver,
                         !.pieceStats = newPieceStats]

----------------------------------------------------------------------------
(* Rotation and movement handlers *)

\* variant: a rotation that collides is retried one column to the left
handleRotateKick(snap, prev) ==
    IF ~HasPiece(snap) \/ snap.isPaused \/ snap.isGameOver THEN prev
    ELSE
        LET rotatedPiece ==
                [snap.activePiece EXCEPT !.shape = rotateShape(snap.activePiece.shape)]
            kickedPiece == [rotatedPiece EXCEPT !.position.x = @ - 1]
        IN  IF ~checkCollision(rotatedPiece, snap.grid, 0, 0)
                THEN [prev EXCEPT !.activePiece = rotatedPiece]
            ELSE IF ~checkCollision(kickedPiece, snap.grid, 0, 0)
                THEN [prev EXCEPT !.activePiece = kickedPiece]
                ELSE prev

handleRotate(snap, prev) ==
    IF ~HasPiece(snap) \/ snap.isPaused \/ snap.isGameOver THEN prev
    ELSE
        LET rotatedPiece ==
                [snap.activePiece EXCEPT !.shape = rotateShape(snap.activePiece.shape)]
        IN  IF ~checkCollision(rotatedPiece, snap.grid, 0, 0)
                THEN [prev EXCEPT !.activePiece = rotatedPiece]
                ELSE prev

handleRotateCCW(snap, prev) ==
    IF ~HasPiece(snap) \/ snap.isPaused \/ snap.isGameOver THEN prev
    ELSE
        LET rotatedPiece ==
                [snap.activePiece EXCEPT !.shape = rotateShapeCCW(snap.activePiece.shape)]
        IN  IF ~checkCollision(rotatedPiece, snap.grid, 0, 0)
                THEN [prev EXCEPT !.activePiece = rotatedPiece]
                ELSE prev

\* the updater of move: prev.activePiece shifted by dir
ShiftX(prev, dir) ==
    IF HasPiece(prev)
        THEN [prev EXCEPT !.activePiece.position.x = @ + dir]
        ELSE prev

\* variant: the collision test made without the offset
moveNoOffset(snap, prev, dir) ==
    IF ~HasPiece(snap) \/ snap.isPaused \/ snap.isGameOver THEN prev
    ELSE IF ~checkCollision(snap.activePiece, snap.grid, 0, 0)
        THEN ShiftX(prev, dir)
        ELSE prev

move(snap, prev, dir) ==
    IF ~HasPiece(snap) \/ snap.isPaused \/ snap.isGameOver THEN prev
    ELSE IF ~checkCollision(snap.activePiece, snap.grid, dir, 0)
        THEN ShiftX(prev, dir)
        ELSE prev

----------------------------------------------------------------------------
(* Pause, restart, theme *)

\* setGameState(prev => ({ ...prev, isPaused: !prev.isPaused }))
togglePause(prev) == [prev EXCEPT !.isPaused = ~prev.isPaused]

\* a variant that carries the score over to the new game
restartGameKeepsScore(prev, mobile, d1, d2, d3) ==
    [FreshState(prev.theme, mobile, d1, d2, d3) EXCEPT !.score = prev.score]

\* the updater of restartGame
restartGame(prev, mobile, d1, d2, d3) ==
    FreshState(prev.theme, mobile, d1, d2, d3)

\* a variant that changes the theme and the field and keeps the game
setThemeKeepsGame(prev, theme, mobile, d1, d2, d3) ==
    IF prev.theme = theme THEN prev
    ELSE [prev EXCEPT !.theme = theme,
                      !.grid = createEmptyGrid(theme, mobile),
                      !.activePiece = NoPiece,
                      !.isPaused = FALSE,
                      !.isGameOver = FALSE]

\* the updater of setTheme
setTheme(prev, theme, mobile, d1, d2, d3) ==
    IF prev.theme = theme THEN prev
                          ELSE FreshState(theme, mobile, d1, d2, d3)

----------------------------------------------------------------------------
(* Initial states *)

(***************************************************************************)
(* Besides the state after construction, the model starts from states in   *)
(* the middle of a game.  Each of them is computed by playing a scripted   *)
(* game with the operators above (spawn, then per piece: rotations, moves  *)
(* and a hard drop), so it is a state the program reaches.  A plan gives   *)
(* the theme, the window class, the kinds the randomizer returned and, per *)
(* locked piece, <<number of rotations, signed number of moves>>.          *)
(***************************************************************************)

RECURSIVE RotateTimes(_, _)
RotateTimes(s, n) == IF n = 0 THEN s ELSE RotateTimes(handleRotate(s, s), n - 1)

RECURSIVE MoveTimes(_, _)
MoveTimes(s, dx) ==
    IF dx = 0 THEN s
    ELSE IF dx > 0 THEN MoveTimes(move(s, s, 1), dx - 1)
                   ELSE MoveTimes(move(s, s, -1), dx + 1)

Place(s, place, draw) == hardDrop(MoveTimes(RotateTimes(s, place[1]), place[2]), draw)

RECURSIVE Play(_, _, _, _)
Play(s, kinds, places, i) ==
    IF i > Len(places) THEN s
    ELSE LET t == Place(s, places[i], kinds[i + 4])
         IN  IF t.score >= 0 THEN Play(t, kinds, places, i + 1) ELSE t

RunPlan(plan) ==
    LET fresh == FreshState(plan.theme, plan.mobile,
                            plan.kinds[1], plan.kinds[2], plan.kinds[3])
    IN  Play(spawnPiece(fresh, fresh, plan.kinds[4]), plan.kinds, plan.places, 1)

RECURSIVE Repeat(_, _)
Repeat(seq, n) == IF n = 0 THEN << >> ELSE seq \o Repeat(seq, n - 1)

\* one layer of four O pieces on columns 2..9 (columns 0 and 1 stay empty)
BallastLayer == << <<0, -2>>, <<0, 0>>, <<0, 2>>, <<0, 4>> >>

\* one row of two flat I pieces on columns 0..7
FlatRow == << <<0, -3>>, <<0, 1>> >>

\* an upright I piece in column 8, in column 9
Upright8 == << <<1, 3>> >>

Upright9 == << <<1, 4>> >>

\* four flat rows and two upright I pieces: clears four rows
TetrisCycle == Repeat(FlatRow, 4) \o Upright8 \o Upright9

\* layers of ballast, cycles of four cleared rows, then h flat rows and an
\* upright I in column 8; `tail` is the active piece's kind and the queue
StackPlan(theme, layers, cycles, h, tail) ==
    [theme  |-> theme,
     mobile |-> FALSE,
     kinds  |-> Repeat(<<"O">>, 4 * layers) \o Repeat(<<"I">>, 10 * cycles)
                    \o Repeat(<<"I">>, 2 * h + 1) \o tail,
     places |-> Repeat(BallastLayer, layers) \o Repeat(TetrisCycle, cycles)
                    \o Repeat(FlatRow, h) \o Upright8]

\* ballast up to row 2: the next lock can end the game
TopPlan(theme, layers, tail) ==
    [theme  |-> theme,
     mobile |-> FALSE,
     kinds  |-> Repeat(<<"O">>, 4 * layers) \o tail,
     places |-> Repeat(BallastLayer, layers)]

Plans ==
    { StackPlan("technicolor", 6, 0, 1, <<"I", "O", "T", "I">>),
      StackPlan("technicolor", 6, 0, 1, <<"J", "S", "O", "I">>),
      StackPlan("technicolor", 6, 0, 1, <<"L", "O", "I", "I">>),
      StackPlan("technicolor", 6, 0, 1, <<"S", "I", "I", "O">>),
      StackPlan("technicolor", 6, 0, 1, <<"T", "O", "O", "I">>),
      StackPlan("technicolor", 6, 0, 1, <<"Z", "I", "O", "O">>),
      StackPlan("technicolor", 6, 0, 2, <<"I", "J", "L", "S">>),
      StackPlan("technicolor", 6, 0, 3, <<"I", "Z", "I", "O">>),
      StackPlan("technicolor", 6, 0, 4, <<"I", "T", "O", "I">>),
      StackPlan("technicolor", 6, 2, 2, <<"I", "I", "O", "T">>),
      StackPlan("technicolor", 6, 3, 4, <<"I", "O", "I", "J">>),
      StackPlan("electronika", 8, 0, 4, <<"I", "L", "I", "O">>),
      TopPlan("technicolor", 9, <<"I", "O", "I", "T">>),
      TopPlan("technicolor", 9, <<"O", "I", "O", "I">>),
      TopPlan("electronika", 11, <<"I", "I", "O", "T">>) }

Scenarios == {RunPlan(plan) : plan \in Plans}

\* getInitialState: the stored theme and the window width are inputs
InitFresh ==
    \E theme \in Themes, mobile \in BOOLEAN, d1 \in AllKinds,
       d2 \in DrawKinds, d3 \in DrawKinds :
        /\ gameState = FreshState(theme, mobile, d1, d2, d3)
        /\ isMobile = mobile

InitScenario ==
    \E plan \in Plans :
        /\ gameState = RunPlan(plan)
        /\ isMobile = plan.mobile

Init ==
    /\ InitFresh \/ InitScenario
    /\ keyIsMobile = isMobile
    /\ isProcessingRef = FALSE
    /\ locks = 0
    /\ lastOp = [op |-> "init"]

----------------------------------------------------------------------------
(* Actions: one per event handler.  Each handler runs against the rendered *)
(* state, so the snapshot it reads is the current gameState.               *)

\* a lock replaces the grid (4 cells stamped, 10 removed per cleared row)
DidLock(prev, new) == HasPiece(prev) /\ new.grid # prev.grid

\* the exploration bounds: a piece is played while fewer than MaxLocks pieces
\* were locked, with the desktop window (isMobile is read by createEmptyGrid
\* only) and, on an empty field, when its kind is one of DrawKinds (the
\* first kind of the game after construction ranges over all kinds)
Playable ==
    \/ ~HasPiece(gameState)
    \/ /\ locks < MaxLocks
       /\ ~isMobile
       /\ \/ gameState.activePiece.type \in DrawKinds
          \/ gameState.grid \notin {EmptyGrid20, EmptyGrid24}

\* the dependencies of the effect that registers handleKeyDown: when one of
\* them changes, the listener is registered again with the current closures
KeyDeps(s) == <<s.activePiece, s.grid, s.isPaused, s.isGameOver>>

\* a step of the game in play that leaves the debounce flag at `ref`; the
\* history keeps the state it started from
Step(new, op, dir, ref) ==
    /\ gameState' = new
    /\ keyIsMobile' = IF KeyDeps(new) # KeyDeps(gameState) THEN isMobile
                                                           ELSE keyIsMobile
    /\ lastOp' = [op |-> op, dir |-> dir, pre |-> gameState]
    /\ locks' = IF DidLock(gameState, new) THEN locks + 1 ELSE locks
    /\ isProcessingRef' = ref
    /\ UNCHANGED isMobile

\* a step of a handler that does not write the debounce flag
Commit(new, op, dir) == Step(new, op, dir, isProcessingRef)

\* what the history keeps of the state a reset or a resize started from
Was(s) ==
    [theme |-> s.theme, rows |-> Len(s.grid), over |-> s.isGameOver]

\* a step that may replace the game; `kept` tells that the state object was
\* returned as it was.  The history keeps the argument, a summary of the
\* state the step started from, `kept`, and whether the state has the
\* value it had.  A replaced state has a new grid
\* array, so the keydown listener is registered again.
Reset(new, op, arg, kept) ==
    /\ gameState' = new
    /\ keyIsMobile' = IF kept THEN keyIsMobile ELSE isMobile
    /\ lastOp' = [op   |-> op,
                  arg  |-> arg,
                  was  |-> Was(gameState),
                  same |-> kept,
                  unchanged |-> new = gameState]
    /\ locks' = IF kept THEN locks ELSE 0
    /\ isProcessingRef' = IF op = "restart" /\ ~kept THEN FALSE
                                                    ELSE isProcessingRef
    /\ UNCHANGED isMobile

\* a variant of the effect without its !gameState.isGameOver condition
SpawnEffectAfterEnd ==
    /\ ~HasPiece(gameState)
    /\ gameState.lines = 0 /\ gameState.score = 0
    /\ \E draw \in DrawKinds :
        Commit(spawnPiece(gameState, gameState, draw), "spawnPiece", 0)

\* useEffect "Initial spawn"
SpawnEffect ==
    /\ ~HasPiece(gameState) /\ ~gameState.isGameOver
    /\ gameState.lines = 0 /\ gameState.score = 0
    /\ \E draw \in DrawKinds :
        Commit(spawnPiece(gameState, gameState, draw), "spawnPiece", 0)

\* useInterval(() => drop(), dropTime)
Tick ==
    /\ Playable
    /\ \E draw \in DrawKinds :
        Commit(drop(gameState, gameState, isProcessingRef, draw), "drop", 0)

\* handleKeyDown: if (gameState.isGameOver) return, then the switch
KeyMove(dir) ==
    /\ Playable
    /\ Commit(IF gameState.isGameOver THEN gameState
                                      ELSE move(gameState, gameState, dir),
              "move", dir)

KeyDrop ==
    /\ Playable
    /\ \E draw \in DrawKinds :
        Commit(IF gameState.isGameOver THEN gameState
               ELSE drop(gameState, gameState, isProcessingRef, draw),
               "drop", 0)

KeyRotate ==
    /\ Playable
    /\ Commit(IF gameState.isGameOver THEN gameState
                                      ELSE handleRotate(gameState, gameState),
              "rotate", 0)

\* case ' ': isProcessingRef.current = true; hardDrop() resets it
KeyHardDrop ==
    /\ Playable
    /\ \E draw \in DrawKinds :
        Step(IF gameState.isGameOver \/ isProcessingRef THEN gameState
             ELSE hardDrop(gameState, draw),
             "hardDrop", 0,
             IF gameState.isGameOver \/ isProcessingRef
                 THEN isProcessingRef
                 ELSE RefAfterHardDrop(TRUE))

\* the exploration bound on pausing
PauseExplored ==
    gameState.isPaused \/ ~HasPiece(gameState)
        \/ gameState.activePiece.position.y < PauseRows

KeyPause ==
    /\ PauseExplored
    /\ Commit(IF gameState.isGameOver THEN gameState ELSE togglePause(gameState),
              "pause", "p")

KeyRestart ==
    \E d1 \in DrawKinds, d2 \in DrawKinds, d3 \in DrawKinds :
        Reset(IF gameState.isGameOver THEN gameState
              ELSE restartGame(gameState, keyIsMobile, d1, d2, d3),
              "restart", "r", gameState.isGameOver)

\* the on-screen controls: handleControlAction(action)
TouchMove(dir) ==
    /\ Playable
    /\ Commit(move(gameState, gameState, dir), "move", dir)

TouchDrop ==
    /\ Playable
    /\ \E draw \in DrawKinds :
        Commit(drop(gameState, gameState, isProcessingRef, draw), "drop", 0)

TouchHardDrop ==
    /\ Playable
    /\ \E draw \in DrawKinds :
        Step(hardDrop(gameState, draw), "hardDrop", 0,
             RefAfterHardDrop(isProcessingRef))

TouchRotate ==
    /\ Playable
    /\ Commit(handleRotate(gameState, gameState), "rotate", 0)

TouchRotateCCW ==
    /\ Playable
    /\ Commit(handleRotateCCW(gameState, gameState), "rotateCCW", 0)

TouchPause ==
    /\ PauseExplored
    /\ Commit(togglePause(gameState), "pause", "button")

\* the restart buttons (onClick and onPointerDown)
TouchRestart ==
    \E d1 \in DrawKinds, d2 \in DrawKinds, d3 \in DrawKinds :
        Reset(restartGame(gameState, isMobile, d1, d2, d3),
              "restart", "button", FALSE)

\* the theme buttons
ThemeButton(theme) ==
    \E d1 \in DrawKinds, d2 \in DrawKinds, d3 \in DrawKinds :
        Reset(setTheme(gameState, theme, isMobile, d1, d2, d3),
              "setTheme", theme, gameState.theme = theme)

\* the window's resize listener: setIsMobile(window.innerWidth <= 768)
\* (explored between games and during a pause); the effect of handleKeyDown
\* does not depend on isMobile, so the listener keeps the value it captured
Resize ==
    /\ ~HasPiece(gameState) \/ gameState.isPaused
    /\ isMobile' = ~isMobile
    /\ lastOp' = [op |-> "resize", was |-> Was(gameState)]
    /\ UNCHANGED <<gameState, keyIsMobile, isProcessingRef, locks>>

Next ==
    \/ SpawnEffect
    \/ Tick
    \/ \E dir \in {-1, 1} : KeyMove(dir)
    \/ KeyDrop
    \/ KeyRotate
    \/ KeyHardDrop
    \/ KeyPause
    \/ KeyRestart
    \/ \E dir \in {-1, 1} : TouchMove(dir)
    \/ TouchDrop
    \/ TouchHardDrop
    \/ TouchRotate
    \/ TouchRotateCCW
    \/ TouchPause
    \/ TouchRestart
    \/ \E theme \in Themes : ThemeButton(theme)
    \/ Resize

Spec == Init /\ [][Next]_vars

----------------------------------------------------------------------------
(* checkCollision as a function: a specification that draws a piece (kind, *)
(* orientation, anchor) and an offset over a grid of a game in progress,   *)
(* and applies the function.                                               *)

\* bounds of the probes: anchors up to ProbeMargin rows above the field and
\* ProbeMargin - 1 columns left of it; offsets up to ProbeShift
ProbeMargin == 4

ProbeShift == 1

\* the grids probed: a ragged stack, and a stack that reaches row 2
ProbePlans ==
    { StackPlan("technicolor", 6, 0, 3, <<"I", "Z", "I", "O">>),
      TopPlan("technicolor", 9, <<"I", "O", "I", "T">>) }

RECURSIVE Turned(_, _)
Turned(shape, n) == IF n = 0 THEN shape ELSE Turned(rotateShape(shape), n - 1)

InitCollision ==
    /\ \E plan \in ProbePlans :
        gameState = [RunPlan(plan) EXCEPT !.activePiece = NoPiece]
    /\ isMobile = FALSE
    /\ keyIsMobile = FALSE
    /\ isProcessingRef = FALSE
    /\ locks = 0
    /\ lastOp = [op |-> "init"]

ProbeCollision ==
    /\ lastOp.op = "init"
    /\ \E kind \in AllKinds, n \in 0..3,
          x \in (1 - ProbeMargin)..COLS,
          y \in (0 - ProbeMargin)..Len(gameState.grid),
          moveX \in (0 - ProbeShift)..ProbeShift, moveY \in 0..ProbeShift :
        LET piece == [type     |-> kind,
                      position |-> [x |-> x, y |-> y],
                      shape    |-> Turned(PIECES[kind], n)]
        IN  /\ gameState' = [gameState EXCEPT !.activePiece = piece]
            /\ lastOp' = [op     |-> "checkCollision",
                          moveX  |-> moveX,
                          moveY  |-> moveY,
                          result |-> checkCollision(piece, gameState.grid,
                                                    moveX, moveY),
                          reads  |-> CollisionReads(piece, gameState.grid,
                                                    moveX, moveY)]
    /\ UNCHANGED <<isMobile, keyIsMobile, isProcessingRef, locks>>

NextCollision == ProbeCollision

SpecCollision == InitCollision /\ [][NextCollision]_vars

----------------------------------------------------------------------------
(* The rotation handlers as functions of the shape: a specification that   *)
(* spawns each kind on an empty field and applies sequences of rotations.  *)

\* bound: the number of rotations in a sequence
MaxTurns == 4

InitRotate ==
    /\ \E kind \in AllKinds :
        LET fresh == FreshState("technicolor", FALSE, kind, kind, kind)
        IN  /\ gameState = spawnPiece(fresh, fresh, kind)
            /\ lastOp = [op       |-> "turns",
                         ops      |-> << >>,
                         shapes   |-> <<PIECES[kind]>>,
                         accepted |-> TRUE]
    /\ isMobile = FALSE
    /\ keyIsMobile = FALSE
    /\ isProcessingRef = FALSE
    /\ locks = 0

\* the history of a sequence: the handlers applied, the matrix after each,
\* and whether every rotation passed its collision test
Turn(new, op, rotated) ==
    /\ Len(lastOp.ops) < MaxTurns
    /\ gameState' = new
    /\ lastOp' = [op       |-> "turns",
                  ops      |-> Append(lastOp.ops, op),
                  shapes   |-> Append(lastOp.shapes, new.activePiece.shape),
                  accepted |-> lastOp.accepted
                                 /\ ~checkCollision(
                                        [gameState.activePiece EXCEPT !.shape = rotated],
                                        gameState.grid, 0, 0)]
    /\ UNCHANGED <<isMobile, keyIsMobile, isProcessingRef, locks>>

TurnCW ==
    Turn(handleRotate(gameState, gameState), "rotate",
         rotateShape(gameState.activePiece.shape))

TurnCCW ==
    Turn(handleRotateCCW(gameState, gameState), "rotateCCW",
         rotateShapeCCW(gameState.activePiece.shape))

NextRotate == TurnCW \/ TurnCCW

SpecRotate == InitRotate /\ [][NextRotate]_vars

----------------------------------------------------------------------------
(* Handlers that run before the component renders again.  The keydown      *)
(* listener and the interval callback are closures of the last render: a   *)
(* handler reads that render's gameState (the snapshot) and enqueues its   *)
(* updater, which React applies to the current state.  In this             *)
(* specification gameState is the current state, and the history keeps the *)
(* snapshot, the actions handled since the last render, the state before   *)
(* the last action, and the state that the same actions give when each of  *)
(* them reads the state it finds.                                          *)

\* the number of actions handled in one run
MaxActs == 3

\* the columns the piece is moved by, and the quarter turns, before the run
BatchShift == 4

BatchTurns == 1

\* O pieces stacked on columns 0 and 1 up to row 2: the other columns are
\* empty
TowerPlan(theme, n, tail) ==
    [theme  |-> theme,
     mobile |-> FALSE,
     kinds  |-> Repeat(<<"O">>, n) \o tail,
     places |-> Repeat(<< <<0, -4>> >>, n)]

BatchPlans ==
    { TowerPlan("technicolor", 9, <<"O", "T", "I", "O">>),
      TopPlan("technicolor", 9, <<"O", "I", "O", "I">>),
      TopPlan("electronika", 11, <<"I", "I", "O", "T">>),
      StackPlan("technicolor", 6, 0, 1, <<"T", "O", "O", "I">>),
      StackPlan("technicolor", 6, 0, 3, <<"I", "Z", "I", "O">>) }

Keys == {"left", "right", "down", "up", "space"}

\* handleKeyDown for one key, with the closures of the render of `snap`
KeyHandler(key, snap, prev, draw) ==
    IF snap.isGameOver THEN prev
    ELSE CASE key = "left"  -> move(snap, prev, -1)
           [] key = "right" -> move(snap, prev, 1)
           [] key = "down"  -> drop(snap, prev, FALSE, draw)
           [] key = "up"    -> handleRotate(snap, prev)
           [] key = "space" -> hardDrop(prev, draw)

\* the interval callback: drop() of the render of `snap`
TickHandler(snap, prev, draw) == drop(snap, prev, FALSE, draw)

InitBatch ==
    /\ \E plan \in BatchPlans, n \in 0..BatchTurns,
          dx \in (0 - BatchShift)..BatchShift :
        gameState = MoveTimes(RotateTimes(RunPlan(plan), n), dx)
    /\ isMobile = FALSE
    /\ keyIsMobile = FALSE
    /\ isProcessingRef = FALSE
    /\ locks = 0
    /\ lastOp = [op   |-> "render",
                 snap |-> gameState,
                 acts |-> << >>,
                 pre  |-> gameState,
                 seq  |-> gameState,
                 n    |-> 0]

\* one handled action: `new` is the current state after its updater, `seq`
\* the state after the same action run on the state `lastOp.seq`
Handled(act, new, seq) ==
    /\ lastOp.n < MaxActs
    /\ gameState' = new
    /\ lastOp' = [op   |-> "batch",
                  snap |-> lastOp.snap,
                  acts |-> Append(lastOp.acts, act),
                  pre  |-> gameState,
                  seq  |-> seq,
                  n    |-> lastOp.n + 1]
    /\ UNCHANGED <<isMobile, keyIsMobile, isProcessingRef, locks>>

BatchKey(key) ==
    \E draw \in DrawKinds :
        Handled(key, KeyHandler(key, lastOp.snap, gameState, draw),
                     KeyHandler(key, lastOp.seq, lastOp.seq, draw))

BatchTick ==
    \E draw \in DrawKinds :
        Handled("tick", TickHandler(lastOp.snap, gameState, draw),
                        TickHandler(lastOp.seq, lastOp.seq, draw))

\* the component renders: the effects register the closures of this render
Render ==
    /\ lastOp.acts # << >>
    /\ lastOp' = [op   |-> "render",
                  snap |-> gameState,
                  acts |-> << >>,
                  pre  |-> gameState,
                  seq  |-> gameState,
                  n    |-> lastOp.n]
    /\ UNCHANGED <<gameState, isMobile, keyIsMobile, isProcessingRef, locks>>

NextBatch ==
    \/ \E key \in Keys : BatchKey(key)
    \/ BatchTick
    \/ Render

SpecBatch == InitBatch /\ [][NextBatch]_vars

----------------------------------------------------------------------------
(* Gravity: the interval delivers its ticks (weak fairness of the tick),   *)
(* the randomizer returns any of the kinds drawn here, and the player      *)
(* shifts the first pieces; after them only ticks occur.                   *)

\* the number of pieces the player shifts before leaving the game to gravity
MaxSteered == 1

\* the number of kinds, in the order of Types, the randomizer returns here
NumGravityKinds == 2

GravityKinds == {Types[i] : i \in 1..NumGravityKinds}

\* ballast up to row 4 and upright I pieces filling column 0: column 1 is
\* the only well, and the four top rows are free
GravityPlan(tail) ==
    [theme  |-> "technicolor",
     mobile |-> FALSE,
     kinds  |-> Repeat(<<"O">>, 32) \o Repeat(<<"I">>, 4) \o tail,
     places |-> Repeat(BallastLayer, 8) \o Repeat(<< <<1, -5>> >>, 4)]

\* every active piece and every queue of the kinds drawn here
GravityPlans ==
    { GravityPlan(<<a, b, c, d>>) :
          a \in GravityKinds, b \in GravityKinds,
          c \in GravityKinds, d \in GravityKinds }

InitGravity ==
    /\ \E plan \in GravityPlans : gameState = RunPlan(plan)
    /\ isMobile = FALSE
    /\ keyIsMobile = FALSE
    /\ isProcessingRef = FALSE
    /\ locks = 0
    /\ lastOp = [op |-> "init"]

\* useInterval(() => drop(), dropTime), with any kind drawn at a lock
GravityTick ==
    \E draw \in GravityKinds :
        Commit(drop(gameState, gameState, isProcessingRef, draw), "drop", 0)

GravityMove(dir) ==
    /\ locks < MaxSteered
    /\ Commit(move(gameState, gameState, dir), "move", dir)

NextGravity ==
    \/ GravityTick
    \/ \E dir \in {-1, 1} : GravityMove(dir)

SpecGravity == InitGravity /\ [][NextGravity]_vars /\ WF_vars(GravityTick)

----------------------------------------------------------------------------
(* Vocabulary of the properties *)

\* a piece is in play: the handlers' common guard is open
Playing(s) == HasPiece(s) /\ ~s.isPaused /\ ~s.isGameOver

\* the field cells <<row, column>> of a piece's matrix shifted by an offset
PieceCells(piece, moveX, moveY) ==
    {<<piece.position.y + (r - 1) + moveY, piece.position.x + (c - 1) + moveX>> :
        <<r, c>> \in {rc \in (1..Len(piece.shape)) \X (1..Len(piece.shape)) :
                        piece.shape[rc[1]][rc[2]] # 0}}

\* the cells <<row, column>> of a grid
FieldCells(grid) == (0..(Len(grid) - 1)) \X (0..(COLS - 1))

\* a cell is outside the columns, below the floor, or a non-empty grid cell
Obstructed(grid, cell) ==
    \/ cell[2] \notin 0..(COLS - 1)
    \/ cell[1] > Len(grid) - 1
    \/ (cell \in FieldCells(grid) /\ grid[cell[1] + 1][cell[2] + 1] # Null)

\* the piece shifted by the offset is obstructed
Collides(piece, grid, moveX, moveY) ==
    \E cell \in PieceCells(piece, moveX, moveY) : Obstructed(grid, cell)

\* the state the last step of play started from
Pre == lastOp.pre

\* the last step was the handler `op` run with a piece in play
Played(op) == lastOp.op = op /\ Playing(Pre)

\* the largest offset d with the piece free at every offset 0..d
Landings(piece, grid) ==
    {d \in 0..Len(grid) : /\ Collides(piece, grid, 0, d + 1)
                          /\ \A e \in 0..d : ~Collides(piece, grid, 0, e)}

\* the last step locked a piece: a drop of a resting piece, or a hard drop
LockStep ==
    \/ Played("hardDrop")
    \/ Played("drop") /\ Collides(Pre.activePiece, Pre.grid, 0, 1)

\* the cells the lock of the last step stamps
LockedCells ==
    IF lastOp.op = "drop"
        THEN PieceCells(Pre.activePiece, 0, 0)
        ELSE PieceCells(Pre.activePiece, 0,
                        CHOOSE d \in Landings(Pre.activePiece, Pre.grid) : TRUE)

\* the grid with the cells set to a kind
Stamped(grid, cells, kind) ==
    [y \in 1..Len(grid) |->
        [x \in 1..COLS |-> IF <<y - 1, x - 1>> \in cells THEN kind ELSE grid[y][x]]]

\* the grid of the last lock after stamping, before the rows are cleared
LockedGrid == Stamped(Pre.grid, LockedCells, Pre.activePiece.type)

FullRows(grid) == {y \in 1..Len(grid) : \A x \in 1..COLS : grid[y][x] # Null}

KeptRows(grid) == (1..Len(grid)) \ FullRows(grid)

\* the k-th row, from the top, of a set of rows
NthOf(rows, k) == CHOOSE y \in rows : Cardinality({z \in rows : z <= y}) = k

\* the k-th row, from the top, that is not full
NthKept(grid, k) == NthOf(KeptRows(grid), k)

\* as many empty rows on top as there were full rows, then the rows that
\* were not full, in their order
Compacted(grid) ==
    LET kept == KeptRows(grid)
        n    == Len(grid) - Cardinality(kept)
    IN  [y \in 1..Len(grid) |->
            IF y <= n THEN [x \in 1..COLS |-> Null]
                      ELSE grid[NthOf(kept, y - n)]]

----------------------------------------------------------------------------
(* Properties *)

(* C1: checkCollision(piece, grid, dx, dy) is true exactly when some filled *)
(* cell of the matrix, placed at the anchor shifted by (dx, dy), has a      *)
(* column outside 0..COLS-1, a row >= the grid's height, or lies on a       *)
(* non-empty grid cell of a row >= 0; cells above the field (row < 0) are   *)
(* not tested against the grid, and no cell outside the grid is read.       *)
C1_CheckCollision ==
    lastOp.op = "checkCollision" =>
        /\ lastOp.result <=> Collides(gameState.activePiece, gameState.grid,
                                      lastOp.moveX, lastOp.moveY)
        /\ lastOp.reads \subseteq FieldCells(gameState.grid)

\* a free probe with cells above the field and cells read inside it
C1_Witness ==
    /\ lastOp.op = "checkCollision"
    /\ ~lastOp.result
    /\ \E cell \in PieceCells(gameState.activePiece, lastOp.moveX, lastOp.moveY) :
         cell[1] < 0
    /\ lastOp.reads # {}

RECURSIVE SoftDrops(_, _)
SoftDrops(s, draw) ==
    IF ~checkCollision(s.activePiece, s.grid, 0, 1)
        THEN SoftDrops(drop(s, s, FALSE, draw), draw)
        ELSE drop(s, s, FALSE, draw)

(* C5: a hard drop of a piece in play leaves the state that soft drops      *)
(* repeated until the piece locks leave, for the same random draw: grid,    *)
(* score, lines, level, per-kind counters, next piece, queue and the        *)
(* game-over flag are the same.                                             *)
C5_HardDropIsSoftDrops ==
    Played("hardDrop") =>
        \E draw \in AllKinds : gameState = SoftDrops(Pre, draw)

C7_RotationCycle ==
    (lastOp.op = "turns" /\ lastOp.accepted) =>
        /\ gameState.activePiece.position
             = NewPieceOf(gameState.activePiece.type).position
        /\ \A i \in 1..Len(lastOp.ops) :
            /\ (/\ i + 3 <= Len(lastOp.ops)
                /\ \A j \in i..(i + 3) : lastOp.ops[j] = "rotate")
                   => lastOp.shapes[i + 4] = lastOp.shapes[i]
            /\ (/\ i + 1 <= Len(lastOp.ops)
                /\ lastOp.ops[i] # lastOp.ops[i + 1])
                   => lastOp.shapes[i + 2] = lastOp.shapes[i]

\* four accepted clockwise rotations of the L piece, each changing the matrix
C7_Witness ==
    /\ lastOp.op = "turns"
    /\ lastOp.accepted
    /\ lastOp.ops = <<"rotate", "rotate", "rotate", "rotate">>
    /\ gameState.activePiece.type = "L"
    /\ \A i \in 1..4 : lastOp.shapes[i + 1] # lastOp.shapes[i]

(* C8: a lock stamps the piece, removes every full row and puts as many     *)
(* empty rows on top: the grid keeps its height and its width of COLS, the  *)
(* rows that were not full keep their order, and lines grows by the number  *)
(* of rows removed.                                                         *)
C8_LineClear ==
    LockStep =>
        /\ Len(gameState.grid) = Len(Pre.grid)
        /\ \A y \in 1..Len(gameState.grid) : Len(gameState.grid[y]) = COLS
        /\ gameState.grid = Compacted(LockedGrid)
        /\ gameState.lines = Pre.lines + Cardinality(FullRows(LockedGrid))

\* a lock that removed three rows and kept rows with cells above them
C8_Witness ==
    /\ LockStep
    /\ Cardinality(FullRows(LockedGrid)) = 3
    /\ \E y \in KeptRows(LockedGrid) :
         /\ y < CHOOSE z \in FullRows(LockedGrid) : TRUE
         /\ LockedGrid[y] # EmptyRow

(* C9: a lock that removes k rows has k in 0..4 and adds                    *)
(* <<0, 40, 100, 300, 1200>>[k] * (the level held before the lock + 1) to   *)
(* the score, by the soft drop/gravity path and by the hard drop path.      *)
C9_Score ==
    LockStep =>
        LET k == Cardinality(FullRows(LockedGrid))
        IN  /\ k \in 0..4
            /\ gameState.score
                 = Pre.score + <<0, 40, 100, 300, 1200>>[k + 1] * (Pre.level + 1)

\* four rows removed at level 2
C9_Witness ==
    /\ LockStep
    /\ Cardinality(FullRows(LockedGrid)) = 4
    /\ Pre.level = 2
    /\ gameState.score = Pre.score + 3600

(* C10: in every state, level = floor(lines / 10) + 1.                      *)
C10_Level == gameState.level = (gameState.lines \div 10) + 1

\* a lock that took the lines from below 10 to 10
C10_Witness ==
    /\ LockStep
    /\ Pre.lines < 10
    /\ gameState.lines = 10
    /\ gameState.level = 2

(* C11: every lock (by the gravity tick, the soft drop or the hard drop,    *)
(* whether or not the spawn that follows ends the game) adds one to the     *)
(* counter of the locked kind and leaves the other counters unchanged.      *)
C11_PieceStats ==
    LockStep =>
        gameState.pieceStats
            = [Pre.pieceStats EXCEPT ![Pre.activePiece.type] = @ + 1]

\* the last step put a new piece in play: the initial spawn, or a lock
\* that did not end the game
Spawned ==
    /\ lastOp.op = "spawnPiece" \/ LockStep
    /\ HasPiece(gameState)

(* C12: every spawned piece (by the initial spawn and after a lock) has the *)
(* kind that was at the head of the queue, the rotation-0 matrix of that    *)
(* kind in the catalog, row 0 and column floor(10/2) - floor(w/2), w the    *)
(* width of the matrix: 3 for I, 4 for O and for J, L, S, T, Z.             *)
C12_Spawn ==
    Spawned =>
        LET kind == Pre.nextPieces[1]
            w    == Len(PIECES[kind][1])
        IN  /\ gameState.activePiece.type = kind
            /\ gameState.activePiece.shape = PIECES[kind]
            /\ gameState.activePiece.position.y = 0
            /\ gameState.activePiece.position.x = (10 \div 2) - (w \div 2)
            /\ gameState.activePiece.position.x = IF kind = "I" THEN 3 ELSE 4
            /\ w = CASE kind = "I" -> 4 [] kind = "O" -> 2 [] OTHER -> 3

\* an S spawned by a lock, at column 4
C12_Witness ==
    /\ LockStep
    /\ HasPiece(gameState)
    /\ Pre.nextPieces[1] = "S"
    /\ gameState.activePiece.position = [x |-> 4, y |-> 0]

\* the last step was a step of the game in play, a pause or the initial spawn
Stepped ==
    lastOp.op \in {"spawnPiece", "drop", "hardDrop", "move", "rotate",
                   "rotateCCW", "pause"}

(* C13: the queue holds exactly 3 kinds in every state; every spawn removes *)
(* the head, shifts the rest and appends one drawn kind; no operation other *)
(* than a spawn, a restart or a theme change changes the queue.             *)
C13_Queue ==
    /\ Len(gameState.nextPieces) = 3
    /\ \A i \in 1..3 : gameState.nextPieces[i] \in AllKinds
    /\ Stepped =>
         IF Spawned
             THEN /\ gameState.nextPieces[1] = Pre.nextPieces[2]
                  /\ gameState.nextPieces[2] = Pre.nextPieces[3]
             ELSE gameState.nextPieces = Pre.nextPieces

\* the piece of a kind as it enters the field
EntryPiece(kind) ==
    [type     |-> kind,
     shape    |-> PIECES[kind],
     position |-> [x |-> IF kind = "I" THEN 3 ELSE 4, y |-> 0]]

(* C14: after a lock, if the new piece collides with the field left by the  *)
(* line clear, game over is set, no piece is active and the field is the    *)
(* field left by the line clear (the colliding piece is not stamped);       *)
(* otherwise the new piece is active and game over stays false.             *)
C14_LockOutcome ==
    LockStep =>
        LET cleared == Compacted(LockedGrid)
            piece   == EntryPiece(Pre.nextPieces[1])
        IN  IF Collides(piece, cleared, 0, 0)
                THEN /\ gameState.isGameOver
                     /\ ~HasPiece(gameState)
                     /\ gameState.grid = cleared
                ELSE /\ ~gameState.isGameOver
                     /\ gameState.activePiece = piece
                     /\ gameState.grid = cleared

\* a soft drop locked a piece and the next piece found its cells taken
C14_Witness ==
    /\ LockStep
    /\ lastOp.op = "drop"
    /\ gameState.isGameOver
    /\ \E cell \in PieceCells(EntryPiece(Pre.nextPieces[1]), 0, 0) :
         cell \in FieldCells(gameState.grid) /\ Obstructed(gameState.grid, cell)

C17_AlwaysAccepted ==
    /\ lastOp.op = "pause" => gameState.isPaused = ~Pre.isPaused
    /\ lastOp.op = "restart" =>
         /\ ~gameState.isGameOver
         /\ ~gameState.isPaused
         /\ ~HasPiece(gameState)
         /\ gameState.score = 0
         /\ gameState.grid \in {EmptyGrid20, EmptyGrid24}

(* C18: while the game is paused every tick, move, rotation, soft drop and *)
(* hard drop leaves the state unchanged; a pause toggle changes the paused  *)
(* flag and nothing else, and two toggles in a row give back the state they *)
(* started from; after that, a tick moves the piece again.                  *)
C18_Pause ==
    /\ (Stepped /\ lastOp.op \notin {"pause", "spawnPiece"} /\ Pre.isPaused) =>
         gameState = Pre
    /\ lastOp.op = "pause" =>
         /\ gameState = [Pre EXCEPT !.isPaused = gameState.isPaused]
         /\ (lastOp.dir = "button" \/ ~Pre.isGameOver) =>
              /\ gameState.isPaused = ~Pre.isPaused
              /\ [gameState EXCEPT !.isPaused = ~gameState.isPaused] = Pre
              /\ togglePause(gameState) = Pre
    /\ Played("drop") => gameState # Pre

\* a drop refused during a pause, with the piece below its spawn row
C18_Witness ==
    /\ lastOp.op = "drop"
    /\ Pre.isPaused
    /\ HasPiece(Pre)
    /\ Pre.activePiece.position.y > 0
    /\ gameState = Pre

\* the field height configured for a theme and a window class
ConfiguredRows(theme, mobile) ==
    IF theme = "electronika" /\ ~mobile THEN 24 ELSE 20

\* a fresh game: an empty field, three kinds queued, nothing counted, no
\* flag set, no piece
Fresh(s) ==
    /\ \A y \in 1..Len(s.grid) : s.grid[y] = [x \in 1..10 |-> Null]
    /\ Len(s.nextPieces) = 3
    /\ \A i \in 1..3 : s.nextPieces[i] \in AllKinds
    /\ s.score = 0 /\ s.lines = 0 /\ s.level = 1
    /\ \A k \in AllKinds : s.pieceStats[k] = 0
    /\ ~s.isPaused /\ ~s.isGameOver
    /\ ~HasPiece(s)

(* C19: a restart, from a game in play, paused or over, leaves a fresh game *)
(* of the same theme whose empty field has the height configured for that   *)
(* theme (and the window class): an all-empty field, 3 newly drawn kinds,   *)
(* score 0, lines 0, level 1, the seven counters 0, paused and game over    *)
(* false, no active piece; the next spawn then starts play from it.         *)
C19_Restart ==
    /\ (lastOp.op = "restart" /\ ~lastOp.same) =>
         /\ Fresh(gameState)
         /\ gameState.theme = lastOp.was.theme
         /\ Len(gameState.grid) = ConfiguredRows(gameState.theme, isMobile)
    /\ (lastOp.op = "spawnPiece" /\ Fresh(Pre)) => Playing(gameState)

\* the height of the field before the last step
RowsBefore ==
    IF Stepped THEN Len(Pre.grid)
    ELSE IF lastOp.op = "init" THEN Len(gameState.grid)
    ELSE lastOp.was.rows

C21_ArrivalOrder ==
    (lastOp.op = "batch" /\ Len(lastOp.acts) = 2) => gameState = lastOp.seq

(* C22: across every transition other than a restart and a theme change,  *)
(* the score, the lines, the level and each per-kind counter never          *)
(* decrease, and they change only in a transition that locks a piece:       *)
(* moves, rotations, descents that do not lock and pause toggles leave all  *)
(* of them unchanged.                                                       *)
C22_Monotone ==
    Stepped =>
        /\ gameState.score >= Pre.score
        /\ gameState.lines >= Pre.lines
        /\ gameState.level >= Pre.level
        /\ \A k \in AllKinds : gameState.pieceStats[k] >= Pre.pieceStats[k]
        /\ ~LockStep =>
             /\ gameState.score = Pre.score
             /\ gameState.lines = Pre.lines
             /\ gameState.level = Pre.level
             /\ gameState.pieceStats = Pre.pieceStats

\* a descent of one row that left the counters of a game with points alone
C22_Witness ==
    /\ Played("drop")
    /\ ~LockStep
    /\ gameState.activePiece.position.y = Pre.activePiece.position.y + 1
    /\ Pre.score > 0
    /\ gameState.score = Pre.score

(* C23: in every reachable state an active piece, when present, has all   *)
(* its cells inside the columns 0..9 and the rows 0..height-1 of the field  *)
(* and on empty field cells: checkCollision(active, field, 0, 0) is false.  *)
C23_PieceInField ==
    HasPiece(gameState) =>
        /\ PieceCells(gameState.activePiece, 0, 0) \subseteq FieldCells(gameState.grid)
        /\ \A cell \in PieceCells(gameState.activePiece, 0, 0) :
             ~Obstructed(gameState.grid, cell)
        /\ ~checkCollision(gameState.activePiece, gameState.grid, 0, 0)

\* the last handled action, run before a render or after it, locked a piece
BatchLock ==
    /\ lastOp.op = "batch"
    /\ HasPiece(Pre)
    /\ gameState.grid # Pre.grid \/ gameState.pieceStats # Pre.pieceStats

\* the number of non-empty cells of a grid
Filled(grid) ==
    Cardinality({cell \in FieldCells(grid) : grid[cell[1] + 1][cell[2] + 1] # Null})

(* C24: a lock writes the kind of the locked piece into exactly the 4 field *)
(* cells the piece occupies and leaves every other cell unchanged; the clip *)
(* of the stamping loop never drops a cell, so the number of non-empty      *)
(* cells after a lock is the number before, plus 4, minus 10 times the      *)
(* number of rows cleared.                                                  *)
C24_Stamp ==
    (LockStep \/ BatchLock) =>
        Filled(gameState.grid)
            = Filled(Pre.grid) + 4 - 10 * (gameState.lines - Pre.lines)

(* C25: no reachable state has a full row in the field: after every lock  *)
(* (by either lock path), restart and theme change every row holds at least *)
(* one empty cell, and every cell is empty or one of the 7 kind tags.       *)
C25_NoFullRow ==
    \A y \in 1..Len(gameState.grid) :
        /\ \E x \in 1..COLS : gameState.grid[y][x] = Null
        /\ \A x \in 1..COLS : gameState.grid[y][x] \in AllKinds \cup {Null}

\* a soft drop that filled two rows at once and left cells in the field
C25_Witness ==
    /\ Played("drop")
    /\ LockStep
    /\ Cardinality(FullRows(LockedGrid)) >= 2
    /\ Filled(gameState.grid) > 0

(* C26: gravity and the soft drop lock a piece only on obstruction: when  *)
(* the lock operation stamps a piece, that piece collides at the offset     *)
(* (0, 1) in the state the lock is applied to; a gravity tick and a soft    *)
(* drop handled against the same snapshot of a resting piece lock that      *)
(* piece once and do not lock the new piece at its spawn position.          *)
C26_LockOnObstruction ==
    /\ (LockStep /\ lastOp.op = "drop") =>
         Collides(Pre.activePiece, Pre.grid, 0, 1)
    /\ (BatchLock /\ lastOp.acts[Len(lastOp.acts)] \in {"down", "tick"}) =>
         Collides(Pre.activePiece, Pre.grid, 0, 1)

(* C27: a rotation is applied to the piece that is active when its update  *)
(* runs: when a lock is applied between the moment the handler reads the    *)
(* piece and the moment its update is applied, the rotation does not        *)
(* replace the new piece by the earlier one, does not put an active piece   *)
(* on locked cells and does not create an active piece after game over.     *)
C27_RotationTarget ==
    (/\ lastOp.op = "batch"
     /\ lastOp.acts[Len(lastOp.acts)] = "up"
     /\ lastOp.snap.grid # Pre.grid) =>
        IF HasPiece(Pre)
            THEN /\ gameState.activePiece.type = Pre.activePiece.type
                 /\ gameState.activePiece.position = Pre.activePiece.position
                 /\ gameState.activePiece.shape
                      \in {Pre.activePiece.shape, rotateShape(Pre.activePiece.shape)}
                 /\ ~Collides(Pre.activePiece, Pre.grid, 0, 0)
                      => ~Collides(gameState.activePiece, gameState.grid, 0, 0)
            ELSE ~HasPiece(gameState)

(* C28: the active piece is absent only in a fresh game or after game     *)
(* over: in every reachable state with no active piece and game over false, *)
(* the score is 0, the lines are 0 and the field is empty, so the condition *)
(* of the initial spawn holds and the game is never left with no piece, no  *)
(* game over and no spawn to come.                                          *)
C28_NoPieceMeansFresh ==
    (~HasPiece(gameState) /\ ~gameState.isGameOver) =>
        /\ gameState.score = 0
        /\ gameState.lines = 0
        /\ Filled(gameState.grid) = 0
        /\ ENABLED SpawnEffect

\* the fresh game left by a restart button after a game over
C28_Witness ==
    /\ lastOp.op = "restart"
    /\ lastOp.was.over
    /\ ~HasPiece(gameState)
    /\ ~gameState.isGameOver

(* C29: the hard-drop guard flag is false whenever a key event, a touch    *)
(* action or a gravity tick starts being handled: it is set only in the     *)
(* hard-drop key branch and cleared before that handler returns, and a      *)
(* restart clears it, so it never makes a gravity tick or a soft drop skip. *)
C29_GuardFlag ==
    /\ ~isProcessingRef
    /\ Played("drop") => gameState # Pre
    /\ Played("hardDrop") => gameState # Pre

\* a hard drop locked a piece and left the flag cleared
C29_Witness ==
    /\ Played("hardDrop")
    /\ gameState.grid # Pre.grid
    /\ ~isProcessingRef

(* C30: under fair delivery of the gravity ticks, with the game not        *)
(* paused, every active piece is eventually locked; and once only gravity   *)
(* ticks occur, the game eventually reaches game over, for every sequence   *)
(* of kinds drawn.                                                          *)
C30_Gravity ==
    /\ HasPiece(gameState) ~> (lastOp.op = "drop" /\ DidLock(Pre, gameState))
    /\ <>gameState.isGameOver

\* the game ended by gravity after three locks
C30_Witness ==
    /\ lastOp.op = "drop"
    /\ DidLock(Pre, gameState)
    /\ gameState.isGameOver
    /\ locks = 3

====
